---------------------------- MODULE Spec2Model ----------------------------
(***************************************************************************)
(* The relay broker of SoftGuar/rpi_code                                   *)
(* (src/bluetooth_data_sender/bluetooth_data_sender.py) as a state         *)
(* machine: the module globals ser, clients and exit_flag, the serial      *)
(* handles serial.Serial() creates, the producer connections, and one      *)
(* program counter per thread (one handle_client thread per accepted       *)
(* connection, the rfcomm_monitor thread, the main thread with the         *)
(* cleanup() frames its signal handlers push).                             *)
(*                                                                         *)
(* The code takes no lock, so every statement is its own step, and a       *)
(* statement that loads the global ser more than once (ser and             *)
(* ser.is_open, then ser.close()) is one step per load: another thread     *)
(* may rebind ser in between, which is how 'NoneType' has no attribute     *)
(* errors arise.                                                           *)
(***************************************************************************)
EXTENDS Integers, Sequences, FiniteSets, TLC

(* ------------------------------ bounds -------------------------------- *)
\* Producer connections the model lets connect.
MaxConns == 2
\* Lines each producer sends on its connection.
MaxMsgs == 2
\* serial.Serial() instances created in one run.
MaxHandles == 2
\* Times the device path appears or disappears.
MaxFlaps == 2
\* SIGINT / SIGTERM deliveries.
MaxSignals == 2
\* Monitor iterations counted with the device continuously available.
ReconnectBound == 2

\* Monitor iterations a device outage lasts before the device returns.
DownIntervals == 3

(* --------------------------- program constants ------------------------ *)
BUFFER_SIZE == 4096

\* The scanner's input: MaxBeacons "+INQ:" lines, each with RssiDigits hex
\* digits of RSSI, then the HC-05's "OK" line.
MaxBeacons == 2
RssiDigits == 2

(* ------------------------------ encoding ------------------------------ *)
\* A byte is a number: NL is b'\n', BAD a byte that is no valid UTF-8,
\* 1..MaxMsgs the payload of a producer's first, second, ... line.
NL == 0
BAD == 99
None == 0
Conns == 1..MaxConns
Handles == 1..MaxHandles
Mon == MaxConns + 1
Main == MaxConns + 2
Threads == Conns \cup {Mon, Main}

VARIABLES
    devAvail,     \* RFCOMM_PORT is listed by comports() (is_rfcomm_available)
    flaps,        \* how often devAvail has changed
    ser,          \* the global ser: None or a handle
    hstate,       \* each handle: "free" (not created yet), "open", "closed",
                  \* "unused" (never created in this run)
    written,      \* what ser.write delivered for each connection, write by write
    clients,      \* the global clients (the list object the name is bound to)
    exit_flag,    \* the global exit_flag
    sockFile,     \* UNIX_SOCKET_PATH exists
    unlinks,      \* successful os.unlink(UNIX_SOCKET_PATH) calls made by cleanup()
    cleanupRaised,\* some cleanup() invocation ended by raising
    cleanupsDone, \* cleanup() invocations that returned normally
    overlap,      \* a cleanup() started while another one was still running
    closeCalls,   \* close() calls made on each accepted connection
    fd,           \* broker side of each connection: "none", "pending", "open", "closed"
    peerOpen,     \* the producer still holds its end open
    inbuf,        \* bytes a producer sent that the broker has not read yet
    quota,        \* how many lines each producer sends in this run
    outpos,       \* how many bytes of its script a producer has sent
    replies,      \* replies delivered to each producer, in order
    pc,           \* each thread's position
    loc,          \* each session's locals and what became of its current message
    mstack,       \* cleanup() frames running on the main thread, innermost last
    mpending,     \* main's finally block re-raises once its cleanup() returns
    signals,      \* signals delivered so far
    stableIters,  \* monitor iterations in a row that found the device listed and
                  \* ser None at line 143, with no open and no device change
                  \* in between (counted up to ReconnectBound)
    inert,        \* cleanup() has called ser.close() (line 94)
    downIters,    \* monitor iterations in a row that found the device missing
                  \* at line 143 since it last went away (counted up to
                  \* DownIntervals; kept when the device returns); -1 in runs
                  \* that do not count them
    rxStream,     \* scanner: what the HC-05 sends in this run
    rxPos,        \* scanner: how much of it bb_serial_read has handed out
    response_buffer, \* scanner: the global response_buffer
    found,        \* scanner: the send_device_found calls made, in order
    psock,        \* a producer's global sender_socket: None or a connection
    pwait,        \* that producer has sent an event and waits in recv (line 57)
    presults,     \* what its send_to_bluetooth calls returned, event by event
    rdpos         \* how many of each connection's replies the producer has read

envVars == <<devAvail, flaps, quota>>
serVars == <<ser, hstate>>
histVars == <<inert, downIters>>
scanVars == <<rxStream, rxPos, response_buffer, found>>
prodVars == <<psock, pwait, presults, rdpos>>
peerVars == <<scanVars, prodVars>>
shutVars == <<unlinks, cleanupRaised, cleanupsDone, overlap, mstack, mpending, signals>>
connVars == <<fd, peerOpen, inbuf, outpos, replies, closeCalls>>
vars == <<devAvail, flaps, quota, ser, hstate, written, clients, exit_flag, sockFile,
          unlinks, cleanupRaised, cleanupsDone, overlap, closeCalls, fd,
          peerOpen, inbuf, outpos, replies, pc, loc, mstack,
          mpending, signals, stableIters, inert, downIters, rxStream, rxPos,
          response_buffer, found, psock, pwait, presults, rdpos>>

(* ------------------------------ helpers ------------------------------- *)
\* The scanner's characters: carriage return, line feed, a hex digit of the
\* RSSI field, a character of a line that is no "+INQ:" line.  The piece
\* "+INQ:<mac>,<class>," of beacon i is the one character i.
CR == 13
LF == 10
HEXDIGIT == 70
PLAIN == 79
Beacons == 1..MaxBeacons

Range(s) == {s[i] : i \in 1..Len(s)}

Min(a, b) == IF a <= b THEN a ELSE b

\* The transport is Connected: ser is bound to an open handle.
Connected == ser # None /\ hstate[ser] = "open"

OpenHandles == {h \in Handles : hstate[h] = "open"}

FreeHandles == {h \in Handles : hstate[h] = "free"}

\* The handle the next serial.Serial() call creates.
NewHandle == CHOOSE h \in FreeHandles : \A g \in FreeHandles : h <= g

\* The bytes a producer sends over its connection: line i carries payload i.
RECURSIVE Lines(_)
Lines(n) == IF n = 0 THEN <<>> ELSE Lines(n - 1) \o <<n, NL>>

Script(c) == Lines(quota)

\* How many newline bytes a byte string holds.
RECURSIVE CountNL(_)
CountNL(s) == IF s = <<>> THEN 0
              ELSE (IF Head(s) = NL THEN 1 ELSE 0) + CountNL(Tail(s))

\* bytes.decode() raises on a byte that is no UTF-8.
Decodable(data) == \A i \in 1..Len(data) : data[i] # BAD

\* str.strip(): leading and trailing whitespace removed, inner kept.
RECURSIVE LStrip(_)
LStrip(s) == IF s # <<>> /\ Head(s) = NL THEN LStrip(Tail(s)) ELSE s

RECURSIVE RStrip(_)
RStrip(s) == IF s # <<>> /\ s[Len(s)] = NL
             THEN RStrip(SubSeq(s, 1, Len(s) - 1)) ELSE s

Strip(s) == RStrip(LStrip(s))

\* send_data: the bytes handed to ser.write, a newline appended when missing.
WireBytes(msg) == IF msg # <<>> /\ msg[Len(msg)] = NL THEN msg ELSE Append(msg, NL)

\* What recv is not: a read that hands out the newest byte first.
RecvNewestFirst(buf) == <<SubSeq(buf, Len(buf), Len(buf)), SubSeq(buf, 1, Len(buf) - 1)>>

\* client_socket.recv(BUFFER_SIZE): <<the bytes returned, the bytes left>>;
\* a stream socket hands out the oldest bytes first, at most BUFFER_SIZE.
Recv(buf) == <<SubSeq(buf, 1, Min(Len(buf), BUFFER_SIZE)),
               SubSeq(buf, Min(Len(buf), BUFFER_SIZE) + 1, Len(buf))>>

\* What lines 121-124 are not: a reply that ignores send_data's result.
ReplyAlwaysAck(success) == "ACK"

\* handle_client: the reply for send_data's result.
ReplyFor(success) == IF success THEN "ACK" ELSE "NACK"

\* What the loop does not do: leave for the finally block after a NACK.
AfterReplyBreakOnNack(success) == IF success THEN "loop" ELSE "f_close"

\* What the loop does not do: offer a refused message to send_data again.
AfterReplyRetry(success) == IF success THEN "loop" ELSE "sd_c1"

\* handle_client: where the loop goes once a reply is out.
AfterReply(success) == "loop"

\* A send on a connection reaches the producer when both ends are open.
Sendable(c) == fd[c] = "open" /\ peerOpen[c]

\* A session's current message: msg is decoded_data; late, send_data was
\* entered with exit_flag set; disc, line 51 found no open handle; avail,
\* what line 26 found for it ("failed" once its serial.Serial raised);
\* wrote, how its ser.write ended; success, send_data's result; reply and
\* delivered, what was sent back and whether it went out; bad, its bytes
\* did not decode (line 116 raised).
NoLoc == [msg |-> <<>>, late |-> FALSE, disc |-> FALSE, avail |-> "na",
          wrote |-> "none", success |-> FALSE, reply |-> "none",
          delivered |-> FALSE, bad |-> FALSE]

\* A thread runs its own code; the main thread only while no cleanup() frame
\* of a signal handler (or of its finally block) is on top of it.
Runs(t) == t # Main \/ mstack = <<>>

Goto(t, p) == pc' = [pc EXCEPT ![t] = p]

(* ------------------------------ Init ---------------------------------- *)
\* main() has bound and listened on the socket, installed the signal
\* handlers and started the monitor thread; it is about to make the initial
\* connection attempt (line 174).  A run has n producers sending m lines
\* each, f changes of the device's availability, g signals and h handles.
InitBase(n, f, g, h, m) ==
    /\ devAvail \in BOOLEAN
    /\ flaps = MaxFlaps - f
    /\ quota = m
    /\ ser = None
    /\ hstate = [x \in Handles |-> IF x <= h THEN "free" ELSE "unused"]
    /\ written = [c \in Conns |-> <<>>]
    /\ clients = <<>>
    /\ exit_flag = FALSE
    /\ sockFile = TRUE
    /\ unlinks = 0
    /\ cleanupRaised = FALSE
    /\ cleanupsDone = 0
    /\ overlap = FALSE
    /\ closeCalls = [c \in Conns |-> 0]
    /\ fd = [c \in Conns |-> IF c <= n THEN "none" ELSE "unused"]
    /\ peerOpen = [c \in Conns |-> FALSE]
    /\ inbuf = [c \in Conns |-> <<>>]
    /\ outpos = [c \in Conns |-> 0]
    /\ replies = [c \in Conns |-> <<>>]
    /\ pc = [t \in Threads |-> IF t = Mon THEN "m_loop"
                               ELSE IF t = Main THEN "su_avail" ELSE "idle"]
    /\ loc = [c \in Conns |-> NoLoc]
    /\ mstack = <<>>
    /\ mpending = FALSE
    /\ signals = MaxSignals - g
    /\ stableIters = 0
    /\ inert = FALSE

\* The producers' own state before they have done anything: the scanner
\* has read nothing, the event sender has no socket.
ScannerIdle ==
    /\ rxStream = <<>>
    /\ rxPos = 0
    /\ response_buffer = <<>>
    /\ found = <<>>

SenderIdle ==
    /\ psock = None
    /\ pwait = FALSE
    /\ presults = <<>>
    /\ rdpos = [c \in Conns |-> 0]

InitWith(n, f, g, h, m) ==
    InitBase(n, f, g, h, m) /\ downIters = -1 /\ ScannerIdle /\ SenderIdle

(* ------------------- setup_serial_connection (22-39) ------------------ *)
\* Where a caller continues when setup_serial_connection returns `result`
\* ("true", "false", or "none" for the fall-through of line 27).
SetupReturn(t, result) ==
    IF t \in Conns
    THEN IF result = "true"
         THEN /\ Goto(t, "sd_write")
              /\ loc' = loc
         ELSE /\ Goto(t, "reply")
              /\ loc' = [loc EXCEPT ![t].success = FALSE]
    ELSE /\ Goto(t, IF t = Mon THEN "m_sleep" ELSE "m_while")
         /\ loc' = loc

\* Where an exception that leaves setup_serial_connection lands: in
\* send_data's except block, or it ends the monitor thread or main().
SetupRaise(t) ==
    /\ Goto(t, IF t \in Conns THEN "sd_e1" ELSE "crashed")
    /\ loc' = loc

\* What line 26 does not do: go on to the open without looking for the
\* device.
SetupAvailUnchecked(t) ==
    /\ pc[t] = "su_avail" /\ Runs(t)
    /\ Goto(t, "su_c1")
    /\ loc' = loc
    /\ UNCHANGED <<peerVars, envVars, histVars, serVars, written, clients, exit_flag, sockFile,
                   shutVars, connVars, stableIters>>

\* line 26: if is_rfcomm_available()
SetupAvail(t) ==
    /\ pc[t] = "su_avail" /\ Runs(t)
    /\ IF devAvail
       THEN /\ Goto(t, "su_c1")
            /\ loc' = IF t \in Conns THEN [loc EXCEPT ![t].avail = "yes"] ELSE loc
       ELSE IF t \in Conns
            THEN /\ Goto(t, "reply")
                 /\ loc' = [loc EXCEPT ![t].avail = "no", ![t].success = FALSE]
            ELSE SetupReturn(t, "false")
    /\ UNCHANGED <<peerVars, envVars, histVars, serVars, written, clients, exit_flag, sockFile,
                   shutVars, connVars, stableIters>>

\* line 27: ser is None
SetupCheckNone(t) ==
    /\ pc[t] = "su_c1" /\ Runs(t)
    /\ Goto(t, IF ser = None THEN "su_open" ELSE "su_c2")
    /\ UNCHANGED <<peerVars, envVars, histVars, serVars, written, clients, exit_flag, sockFile,
                   shutVars, connVars, loc, stableIters>>

\* line 27: not ser.is_open (ser loaded again)
SetupCheckOpen(t) ==
    /\ pc[t] = "su_c2" /\ Runs(t)
    /\ IF ser = None THEN SetupRaise(t)
       ELSE IF hstate[ser] # "open"
            THEN Goto(t, "su_open") /\ loc' = loc
            ELSE SetupReturn(t, "none")
    /\ UNCHANGED <<peerVars, envVars, histVars, serVars, written, clients, exit_flag, sockFile,
                   shutVars, connVars, stableIters>>

\* line 28: ser = serial.Serial(RFCOMM_PORT, timeout=1) succeeds
SetupOpenOk(t) ==
    /\ pc[t] = "su_open" /\ Runs(t)
    /\ devAvail
    /\ FreeHandles # {}
    /\ hstate' = [hstate EXCEPT ![NewHandle] = "open"]
    /\ ser' = NewHandle
    /\ SetupReturn(t, "true")
    /\ stableIters' = 0
    /\ UNCHANGED <<peerVars, envVars, histVars, written, clients, exit_flag, sockFile,
                   shutVars, connVars>>

\* line 28: serial.Serial raises (the device went away, or the open fails)
SetupOpenFail(t) ==
    /\ pc[t] = "su_open" /\ Runs(t)
    /\ Goto(t, "su_e1")
    /\ loc' = IF t \in Conns THEN [loc EXCEPT ![t].avail = "failed"] ELSE loc
    /\ UNCHANGED <<peerVars, envVars, histVars, serVars, written, clients, exit_flag, sockFile,
                   shutVars, connVars, stableIters>>

\* line 36: if ser (first load)
SetupExcTruthy(t) ==
    /\ pc[t] = "su_e1" /\ Runs(t)
    /\ Goto(t, IF ser = None THEN "su_e4" ELSE "su_e2")
    /\ UNCHANGED <<peerVars, envVars, histVars, serVars, written, clients, exit_flag, sockFile,
                   shutVars, connVars, loc, stableIters>>

\* line 36: and ser.is_open (second load)
SetupExcIsOpen(t) ==
    /\ pc[t] = "su_e2" /\ Runs(t)
    /\ IF ser = None THEN SetupRaise(t)
       ELSE Goto(t, IF hstate[ser] = "open" THEN "su_e3" ELSE "su_e4") /\ loc' = loc
    /\ UNCHANGED <<peerVars, envVars, histVars, serVars, written, clients, exit_flag, sockFile,
                   shutVars, connVars, stableIters>>

\* line 37: ser.close() (third load)
SetupExcClose(t) ==
    /\ pc[t] = "su_e3" /\ Runs(t)
    /\ IF ser = None
       THEN SetupRaise(t) /\ hstate' = hstate
       ELSE /\ hstate' = [hstate EXCEPT ![ser] = "closed"]
            /\ Goto(t, "su_e4") /\ loc' = loc
    /\ UNCHANGED <<peerVars, envVars, histVars, ser, written, clients, exit_flag, sockFile,
                   shutVars, connVars, stableIters>>

\* lines 38-39: ser = None; return False
SetupExcReset(t) ==
    /\ pc[t] = "su_e4" /\ Runs(t)
    /\ ser' = None
    /\ SetupReturn(t, "false")
    /\ UNCHANGED <<peerVars, envVars, histVars, hstate, written, clients, exit_flag, sockFile,
                   shutVars, connVars, stableIters>>

SetupStep(t) ==
    \/ SetupAvail(t)
    \/ SetupCheckNone(t)
    \/ SetupCheckOpen(t)
    \/ SetupOpenOk(t)
    \/ SetupOpenFail(t)
    \/ SetupExcTruthy(t)
    \/ SetupExcIsOpen(t)
    \/ SetupExcClose(t)
    \/ SetupExcReset(t)

(* --------------------------- send_data (46-77) ------------------------ *)
\* line 51: ser is None
SendCheckNone(c) ==
    /\ pc[c] = "sd_c1"
    /\ IF ser = None
       THEN Goto(c, "su_avail")
            /\ loc' = [loc EXCEPT ![c].disc = TRUE, ![c].late = exit_flag]
       ELSE Goto(c, "sd_c2")
            /\ loc' = [loc EXCEPT ![c].late = exit_flag]
    /\ UNCHANGED <<peerVars, envVars, histVars, serVars, written, clients, exit_flag, sockFile,
                   shutVars, connVars, stableIters>>

\* line 51: not ser.is_open (ser loaded again)
SendCheckOpen(c) ==
    /\ pc[c] = "sd_c2"
    /\ IF ser = None
       THEN Goto(c, "sd_e1") /\ loc' = loc
       ELSE IF hstate[ser] # "open"
            THEN Goto(c, "su_avail") /\ loc' = [loc EXCEPT ![c].disc = TRUE]
            ELSE Goto(c, "sd_write") /\ loc' = loc
    /\ UNCHANGED <<peerVars, envVars, histVars, serVars, written, clients, exit_flag, sockFile,
                   shutVars, connVars, stableIters>>

\* lines 57-70: ser.write(data_bytes) completes; return True
SendWriteOk(c) ==
    /\ pc[c] = "sd_write"
    /\ ser # None /\ hstate[ser] = "open" /\ devAvail
    /\ written' = [written EXCEPT ![c] = Append(@, WireBytes(loc[c].msg))]
    /\ loc' = [loc EXCEPT ![c].wrote = "ok", ![c].success = TRUE]
    /\ Goto(c, "reply")
    /\ UNCHANGED <<peerVars, envVars, histVars, serVars, clients, exit_flag, sockFile,
                   shutVars, connVars, stableIters>>

\* line 68 raises: ser is None by now (AttributeError), the handle was
\* closed under the writer, the device is gone, or the write itself fails.
SendWriteFail(c) ==
    /\ pc[c] = "sd_write"
    /\ loc' = [loc EXCEPT ![c].wrote = "fail"]
    /\ Goto(c, "sd_e1")
    /\ UNCHANGED <<peerVars, envVars, histVars, serVars, written, clients, exit_flag, sockFile,
                   shutVars, connVars, stableIters>>

\* line 74: if ser (first load)
SendExcTruthy(c) ==
    /\ pc[c] = "sd_e1"
    /\ Goto(c, IF ser = None THEN "sd_e4" ELSE "sd_e2")
    /\ UNCHANGED <<peerVars, envVars, histVars, serVars, written, clients, exit_flag, sockFile,
                   shutVars, connVars, loc, stableIters>>

\* line 74: and ser.is_open (second load); an AttributeError here leaves
\* send_data and is caught by handle_client (line 125)
SendExcIsOpen(c) ==
    /\ pc[c] = "sd_e2"
    /\ Goto(c, IF ser = None THEN "err"
               ELSE IF hstate[ser] = "open" THEN "sd_e3" ELSE "sd_e4")
    /\ UNCHANGED <<peerVars, envVars, histVars, serVars, written, clients, exit_flag, sockFile,
                   shutVars, connVars, loc, stableIters>>

\* line 75: ser.close() (third load)
SendExcClose(c) ==
    /\ pc[c] = "sd_e3"
    /\ IF ser = None
       THEN Goto(c, "err") /\ hstate' = hstate
       ELSE Goto(c, "sd_e4") /\ hstate' = [hstate EXCEPT ![ser] = "closed"]
    /\ UNCHANGED <<peerVars, envVars, histVars, ser, written, clients, exit_flag, sockFile,
                   shutVars, connVars, loc, stableIters>>

\* lines 76-77: ser = None; return False
SendExcReset(c) ==
    /\ pc[c] = "sd_e4"
    /\ ser' = None
    /\ loc' = [loc EXCEPT ![c].success = FALSE]
    /\ Goto(c, "reply")
    /\ UNCHANGED <<peerVars, envVars, histVars, hstate, written, clients, exit_flag, sockFile,
                   shutVars, connVars, stableIters>>

SendStep(c) ==
    \/ SendCheckNone(c)
    \/ SendCheckOpen(c)
    \/ SendWriteOk(c)
    \/ SendWriteFail(c)
    \/ SendExcTruthy(c)
    \/ SendExcIsOpen(c)
    \/ SendExcClose(c)
    \/ SendExcReset(c)

(* ------------------------- handle_client (103-136) -------------------- *)
\* line 106: clients.append(client_socket)
HandlerRegister(c) ==
    /\ pc[c] = "start"
    /\ clients' = Append(clients, c)
    /\ Goto(c, "loop")
    /\ UNCHANGED <<peerVars, envVars, histVars, serVars, written, exit_flag, sockFile, shutVars,
                   connVars, loc, stableIters>>

\* line 109: while not exit_flag
HandlerLoop(c) ==
    /\ pc[c] = "loop"
    /\ Goto(c, IF exit_flag THEN "f_close" ELSE "recv")
    /\ loc' = [loc EXCEPT ![c] = NoLoc]
    /\ UNCHANGED <<peerVars, envVars, histVars, serVars, written, clients, exit_flag, sockFile,
                   shutVars, connVars, stableIters>>

\* lines 110-117 with bytes waiting: recv returns them; data.decode().strip()
\* is the message, or decode raises and line 125 catches it.  A recv that
\* was already blocked when cleanup() closed the socket still returns.
HandlerRecvData(c) ==
    /\ pc[c] \in {"recv", "blocked"}
    /\ pc[c] = "recv" => fd[c] = "open"
    /\ inbuf[c] # <<>>
    /\ inbuf' = [inbuf EXCEPT ![c] = Recv(inbuf[c])[2]]
    /\ LET data == Recv(inbuf[c])[1] IN
       IF Decodable(data)
       THEN /\ loc' = [loc EXCEPT ![c] = [NoLoc EXCEPT !.msg = Strip(data)]]
            /\ Goto(c, "sd_c1")
       ELSE /\ loc' = [loc EXCEPT ![c] = [NoLoc EXCEPT !.bad = TRUE]]
            /\ Goto(c, "err")
    /\ UNCHANGED <<peerVars, envVars, histVars, serVars, written, clients, exit_flag, sockFile,
                   shutVars, fd, peerOpen, outpos, replies, closeCalls, stableIters>>

\* line 110 with nothing to read yet: the thread blocks in recv
HandlerRecvBlock(c) ==
    /\ pc[c] = "recv"
    /\ fd[c] = "open" /\ inbuf[c] = <<>> /\ peerOpen[c]
    /\ Goto(c, "blocked")
    /\ UNCHANGED <<peerVars, envVars, histVars, serVars, written, clients, exit_flag, sockFile,
                   shutVars, connVars, loc, stableIters>>

\* lines 110-112: recv returns b'' (the producer closed): break
HandlerRecvEof(c) ==
    /\ pc[c] \in {"recv", "blocked"}
    /\ pc[c] = "recv" => fd[c] = "open"
    /\ inbuf[c] = <<>> /\ ~peerOpen[c]
    /\ Goto(c, "f_close")
    /\ UNCHANGED <<peerVars, envVars, histVars, serVars, written, clients, exit_flag, sockFile,
                   shutVars, connVars, loc, stableIters>>

\* line 110 on a socket cleanup() already closed: recv raises, line 128
HandlerRecvRaise(c) ==
    /\ pc[c] = "recv"
    /\ fd[c] = "closed"
    /\ Goto(c, "f_close")
    /\ UNCHANGED <<peerVars, envVars, histVars, serVars, written, clients, exit_flag, sockFile,
                   shutVars, connVars, loc, stableIters>>

\* lines 121-124: client_socket.send(b'ACK\n' or b'NACK\n'); a send that
\* raises (socket closed, producer gone) is caught by line 125
HandlerReply(c) ==
    /\ pc[c] = "reply"
    /\ IF Sendable(c)
       THEN /\ replies' = [replies EXCEPT ![c] = Append(@, ReplyFor(loc[c].success))]
            /\ loc' = [loc EXCEPT ![c].reply = ReplyFor(loc[c].success),
                                  ![c].delivered = TRUE]
            /\ Goto(c, AfterReply(loc[c].success))
       ELSE /\ replies' = replies
            /\ loc' = [loc EXCEPT ![c].reply = ReplyFor(loc[c].success)]
            /\ Goto(c, "err")
    /\ UNCHANGED <<peerVars, envVars, histVars, serVars, written, clients, exit_flag, sockFile,
                   shutVars, fd, peerOpen, inbuf, outpos, closeCalls,
                   stableIters>>

\* What lines 125-127 do not do: end the session once ERROR is sent.
HandlerErrorClose(c) ==
    /\ pc[c] = "err"
    /\ IF Sendable(c)
       THEN /\ replies' = [replies EXCEPT ![c] = Append(@, "ERROR")]
            /\ loc' = [loc EXCEPT ![c].reply = IF @ = "none" THEN "ERROR" ELSE @,
                                  ![c].delivered = TRUE]
       ELSE /\ replies' = replies
            /\ loc' = [loc EXCEPT ![c].reply = IF @ = "none" THEN "ERROR" ELSE @]
    /\ Goto(c, "f_close")
    /\ UNCHANGED <<peerVars, envVars, histVars, serVars, written, clients, exit_flag, sockFile,
                   shutVars, fd, peerOpen, inbuf, outpos, closeCalls,
                   stableIters>>

\* lines 125-127: client_socket.send(b'ERROR: ...'); if that raises too,
\* line 128 catches it and the handler leaves its loop
HandlerError(c) ==
    /\ pc[c] = "err"
    /\ IF Sendable(c)
       THEN /\ replies' = [replies EXCEPT ![c] = Append(@, "ERROR")]
            /\ loc' = [loc EXCEPT ![c].reply = IF @ = "none" THEN "ERROR" ELSE @,
                                  ![c].delivered = TRUE]
            /\ Goto(c, "loop")
       ELSE /\ replies' = replies
            /\ loc' = [loc EXCEPT ![c].reply = IF @ = "none" THEN "ERROR" ELSE @]
            /\ Goto(c, "f_close")
    /\ UNCHANGED <<peerVars, envVars, histVars, serVars, written, clients, exit_flag, sockFile,
                   shutVars, fd, peerOpen, inbuf, outpos, closeCalls,
                   stableIters>>

\* lines 131-134: client_socket.close()
HandlerClose(c) ==
    /\ pc[c] = "f_close"
    /\ fd' = [fd EXCEPT ![c] = "closed"]
    /\ closeCalls' = [closeCalls EXCEPT ![c] = @ + 1]
    /\ Goto(c, "f_in")
    /\ UNCHANGED <<peerVars, envVars, histVars, serVars, written, clients, exit_flag, sockFile,
                   shutVars, peerOpen, inbuf, outpos, replies, loc,
                   stableIters>>

\* line 135: if client_socket in clients
HandlerMember(c) ==
    /\ pc[c] = "f_in"
    /\ Goto(c, IF c \in Range(clients) THEN "f_remove" ELSE "done")
    /\ UNCHANGED <<peerVars, envVars, histVars, serVars, written, clients, exit_flag, sockFile,
                   shutVars, connVars, loc, stableIters>>

\* What line 136 does not do: empty the registry.
HandlerRemoveAll(c) ==
    /\ pc[c] = "f_remove"
    /\ clients' = <<>>
    /\ Goto(c, "done")
    /\ UNCHANGED <<peerVars, envVars, histVars, serVars, written, exit_flag, sockFile, shutVars,
                   connVars, loc, stableIters>>

\* line 136: clients.remove(client_socket) (clients loaded again: a
\* ValueError if cleanup() rebound it to [] meanwhile)
HandlerRemove(c) ==
    /\ pc[c] = "f_remove"
    /\ IF c \in Range(clients)
       THEN /\ clients' = SelectSeq(clients, LAMBDA x : x # c)
            /\ Goto(c, "done")
       ELSE /\ clients' = clients
            /\ Goto(c, "crashed")
    /\ UNCHANGED <<peerVars, envVars, histVars, serVars, written, exit_flag, sockFile, shutVars,
                   connVars, loc, stableIters>>

HandlerStep(c) ==
    \/ HandlerRegister(c)
    \/ HandlerLoop(c)
    \/ HandlerRecvData(c)
    \/ HandlerRecvBlock(c)
    \/ HandlerRecvEof(c)
    \/ HandlerReply(c)
    \/ HandlerError(c)
    \/ HandlerClose(c)
    \/ HandlerMember(c)
    \/ HandlerRemove(c)

(* ----------------------- producers and the device --------------------- *)
\* A producer connects to UNIX_SOCKET_PATH (connections are used in order).
ProducerConnect(c) ==
    /\ fd[c] = "none"
    /\ sockFile
    /\ \A d \in Conns : d < c => fd[d] # "none"
    /\ fd' = [fd EXCEPT ![c] = "pending"]
    /\ peerOpen' = [peerOpen EXCEPT ![c] = TRUE]
    /\ UNCHANGED <<peerVars, envVars, histVars, serVars, written, clients, exit_flag, sockFile,
                   shutVars, inbuf, outpos, replies, closeCalls, pc,
                   loc, stableIters>>

\* A producer sends its next line, whole (it need not wait for the reply to
\* the line before).
ProducerSendLine(c) ==
    /\ peerOpen[c]
    /\ outpos[c] < Len(Script(c))
    /\ inbuf' = [inbuf EXCEPT ![c] = @ \o SubSeq(Script(c), outpos[c] + 1, outpos[c] + 2)]
    /\ outpos' = [outpos EXCEPT ![c] = @ + 2]
    /\ UNCHANGED <<peerVars, envVars, histVars, serVars, written, clients, exit_flag, sockFile,
                   shutVars, fd, peerOpen, replies, closeCalls, pc,
                   loc, stableIters>>

\* A producer that streams: the next n bytes of its script reach the
\* broker's socket, whatever has been answered so far.
ProducerSendBytes(c) ==
    /\ peerOpen[c]
    /\ \E n \in 1..(Len(Script(c)) - outpos[c]) :
          /\ inbuf' = [inbuf EXCEPT ![c] = @ \o SubSeq(Script(c), outpos[c] + 1, outpos[c] + n)]
          /\ outpos' = [outpos EXCEPT ![c] = @ + n]
    /\ UNCHANGED <<peerVars, envVars, histVars, serVars, written, clients, exit_flag, sockFile,
                   shutVars, fd, peerOpen, replies, closeCalls, pc,
                   loc, stableIters>>

\* A producer sends, in place of its next line, one that is no UTF-8 text.
ProducerSendBad(c) ==
    /\ peerOpen[c]
    /\ outpos[c] + 2 <= Len(Script(c))
    /\ inbuf' = [inbuf EXCEPT ![c] = @ \o <<BAD, NL>>]
    /\ outpos' = [outpos EXCEPT ![c] = @ + 2]
    /\ UNCHANGED <<peerVars, envVars, histVars, serVars, written, clients, exit_flag, sockFile,
                   shutVars, fd, peerOpen, replies, closeCalls, pc,
                   loc, stableIters>>

\* A producer whose lines are empty sends the next one: a bare terminator.
ProducerSendEmpty(c) ==
    /\ peerOpen[c]
    /\ outpos[c] < quota
    /\ inbuf' = [inbuf EXCEPT ![c] = Append(@, NL)]
    /\ outpos' = [outpos EXCEPT ![c] = @ + 1]
    /\ UNCHANGED <<peerVars, envVars, histVars, serVars, written, clients, exit_flag, sockFile,
                   shutVars, fd, peerOpen, replies, closeCalls, pc,
                   loc, stableIters>>

\* The device went away, stayed away for DownIntervals monitor iterations
\* and is back for good.
Recovered == devAvail /\ flaps = MaxFlaps /\ downIters = DownIntervals

\* A producer that holds its line back until the device has recovered.
ProducerSendAfter(c) ==
    /\ Recovered
    /\ ProducerSendLine(c)

(* -------- esp32_beacon_listener: send_to_bluetooth (36-67) ------------ *)
\* The events a producer reports are 1, 2, ..., quota; event e travels as
\* the line "e\n".  The event in hand is the one after those already
\* answered.
EventInHand == Len(presults) + 1

\* What line 58 is not: taking whatever came back as success.
AnswerAny(unread) == TRUE

\* lines 57-58: recv(1024).decode().strip() == "ACK", recv handing out
\* every reply that is waiting on the socket.
Answer(unread) == unread = <<"ACK">>

\* lines 40-43 with sender_socket None: connect_to_sender() (lines 16-33)
\* connects a new socket, or fails (no socket file) and the call returns
\* False.
SyncConnect ==
    /\ psock = None /\ ~pwait
    /\ EventInHand <= quota
    /\ sockFile => \E c \in Conns : fd[c] = "none"
    /\ IF sockFile
       THEN LET c == CHOOSE x \in Conns :
                         fd[x] = "none" /\ \A d \in Conns : d < x => fd[d] # "none"
            IN  /\ fd' = [fd EXCEPT ![c] = "pending"]
                /\ peerOpen' = [peerOpen EXCEPT ![c] = TRUE]
                /\ psock' = c
                /\ presults' = presults
       ELSE /\ presults' = Append(presults, FALSE)
            /\ UNCHANGED <<fd, peerOpen, psock>>
    /\ UNCHANGED <<scanVars, pwait, rdpos, envVars, histVars, serVars, written,
                   clients, exit_flag, sockFile, shutVars, inbuf, outpos, replies,
                   closeCalls, pc, loc, stableIters>>

\* lines 45-54: sender_socket.send(line); on a connection the broker has
\* closed the send raises, lines 64-67 drop the socket and return False.
SyncSend ==
    /\ psock # None /\ ~pwait
    /\ EventInHand <= quota
    /\ IF fd[psock] # "closed"
       THEN /\ inbuf' = [inbuf EXCEPT ![psock] = @ \o <<EventInHand, NL>>]
            /\ pwait' = TRUE
            /\ UNCHANGED <<psock, presults, peerOpen>>
       ELSE /\ psock' = None
            /\ peerOpen' = [peerOpen EXCEPT ![psock] = FALSE]
            /\ presults' = Append(presults, FALSE)
            /\ UNCHANGED <<inbuf, pwait>>
    /\ UNCHANGED <<scanVars, rdpos, envVars, histVars, serVars, written, clients,
                   exit_flag, sockFile, shutVars, fd, outpos, replies, closeCalls,
                   pc, loc, stableIters>>

\* lines 57-63: recv returns the replies that are waiting and the call
\* returns whether they read "ACK"; on a connection the broker has closed,
\* recv returns b'' (the call returns False), or raises when the broker
\* closed with the event unread (lines 64-67); otherwise recv blocks.
SyncRecv ==
    /\ psock # None /\ pwait
    /\ LET unread == SubSeq(replies[psock], rdpos[psock] + 1, Len(replies[psock])) IN
       IF unread # <<>>
       THEN /\ rdpos' = [rdpos EXCEPT ![psock] = Len(replies[psock])]
            /\ presults' = Append(presults, Answer(unread))
            /\ UNCHANGED <<psock, peerOpen>>
       ELSE /\ fd[psock] = "closed"
            /\ presults' = Append(presults, FALSE)
            /\ psock' = IF inbuf[psock] # <<>> THEN None ELSE psock
            /\ peerOpen' = [peerOpen EXCEPT ![psock] = (inbuf[psock] = <<>>)]
            /\ rdpos' = rdpos
    /\ pwait' = FALSE
    /\ UNCHANGED <<scanVars, envVars, histVars, serVars, written, clients, exit_flag,
                   sockFile, shutVars, fd, inbuf, outpos, replies, closeCalls,
                   pc, loc, stableIters>>

SyncStep == SyncConnect \/ SyncSend \/ SyncRecv

\* A producer closes its end.
ProducerClose(c) ==
    /\ peerOpen[c]
    /\ peerOpen' = [peerOpen EXCEPT ![c] = FALSE]
    /\ UNCHANGED <<peerVars, envVars, histVars, serVars, written, clients, exit_flag, sockFile,
                   shutVars, fd, inbuf, outpos, replies, closeCalls,
                   pc, loc, stableIters>>

\* /dev/rfcomm0 appears or disappears.
DeviceFlap ==
    /\ flaps < MaxFlaps
    /\ devAvail' = ~devAvail
    /\ flaps' = flaps + 1
    /\ stableIters' = 0
    /\ downIters' = IF devAvail /\ downIters # -1 THEN 0 ELSE downIters
    /\ UNCHANGED <<peerVars, quota, inert, serVars, written, clients, exit_flag, sockFile,
                   shutVars, connVars, pc, loc>>

(* ------------------------- rfcomm_monitor (138-149) ------------------- *)
\* line 142: while not exit_flag
MonitorLoop ==
    /\ pc[Mon] = "m_loop"
    /\ Goto(Mon, IF exit_flag THEN "done" ELSE "m_c1")
    /\ UNCHANGED <<peerVars, envVars, histVars, serVars, written, clients, exit_flag, sockFile,
                   shutVars, connVars, loc, stableIters>>

\* line 143: not is_rfcomm_available()
MonitorCheckAvail ==
    /\ pc[Mon] = "m_c1"
    /\ Goto(Mon, IF ~devAvail THEN "m_b1" ELSE "m_c2")
    /\ stableIters' = IF ~devAvail THEN 0 ELSE stableIters
    /\ downIters' = IF ~devAvail /\ downIters # -1
                    THEN Min(downIters + 1, DownIntervals) ELSE downIters
    /\ UNCHANGED <<peerVars, envVars, inert, serVars, written, clients, exit_flag, sockFile,
                   shutVars, connVars, loc>>

\* line 143: or (ser ...: a ser that is None ends the condition as false
MonitorCheckSer ==
    /\ pc[Mon] = "m_c2"
    /\ Goto(Mon, IF ser = None THEN "m_sleep" ELSE "m_c3")
    /\ stableIters' = IF ser # None THEN stableIters
                      ELSE IF devAvail THEN Min(stableIters + 1, ReconnectBound) ELSE 0
    /\ UNCHANGED <<peerVars, envVars, histVars, serVars, written, clients, exit_flag, sockFile,
                   shutVars, connVars, loc>>

\* line 143: ... and not ser.is_open) (ser loaded again; an AttributeError
\* ends the monitor thread)
MonitorCheckOpen ==
    /\ pc[Mon] = "m_c3"
    /\ Goto(Mon, IF ser = None THEN "crashed"
                 ELSE IF hstate[ser] = "open" THEN "m_sleep" ELSE "m_b1")
    /\ stableIters' = 0
    /\ UNCHANGED <<peerVars, envVars, histVars, serVars, written, clients, exit_flag, sockFile,
                   shutVars, connVars, loc>>

\* line 145: if ser (first load)
MonitorDropTruthy ==
    /\ pc[Mon] = "m_b1"
    /\ Goto(Mon, IF ser = None THEN "m_b4" ELSE "m_b2")
    /\ UNCHANGED <<peerVars, envVars, histVars, serVars, written, clients, exit_flag, sockFile,
                   shutVars, connVars, loc, stableIters>>

\* line 145: and ser.is_open (second load)
MonitorDropIsOpen ==
    /\ pc[Mon] = "m_b2"
    /\ Goto(Mon, IF ser = None THEN "crashed"
                 ELSE IF hstate[ser] = "open" THEN "m_b3" ELSE "m_b4")
    /\ UNCHANGED <<peerVars, envVars, histVars, serVars, written, clients, exit_flag, sockFile,
                   shutVars, connVars, loc, stableIters>>

\* line 146: ser.close() (third load)
MonitorDropClose ==
    /\ pc[Mon] = "m_b3"
    /\ IF ser = None
       THEN Goto(Mon, "crashed") /\ hstate' = hstate
       ELSE Goto(Mon, "m_b4") /\ hstate' = [hstate EXCEPT ![ser] = "closed"]
    /\ UNCHANGED <<peerVars, envVars, histVars, ser, written, clients, exit_flag, sockFile,
                   shutVars, connVars, loc, stableIters>>

\* What line 147 does not do: keep the handle installed.
MonitorDropKeep ==
    /\ pc[Mon] = "m_b4"
    /\ ser' = ser
    /\ Goto(Mon, "su_avail")
    /\ UNCHANGED <<peerVars, envVars, histVars, hstate, written, clients, exit_flag, sockFile,
                   shutVars, connVars, loc, stableIters>>

\* lines 147-148: ser = None, then setup_serial_connection()
MonitorDropReset ==
    /\ pc[Mon] = "m_b4"
    /\ ser' = None
    /\ Goto(Mon, "su_avail")
    /\ UNCHANGED <<peerVars, envVars, histVars, hstate, written, clients, exit_flag, sockFile,
                   shutVars, connVars, loc, stableIters>>

\* line 149: time.sleep(5); one more iteration is over
MonitorSleep ==
    /\ pc[Mon] = "m_sleep"
    /\ Goto(Mon, "m_loop")
    /\ UNCHANGED <<peerVars, envVars, histVars, serVars, written, clients, exit_flag, sockFile,
                   shutVars, connVars, loc, stableIters>>

MonitorStep ==
    \/ MonitorLoop
    \/ MonitorCheckAvail
    \/ MonitorCheckSer
    \/ MonitorCheckOpen
    \/ MonitorDropTruthy
    \/ MonitorDropIsOpen
    \/ MonitorDropClose
    \/ MonitorDropReset
    \/ MonitorSleep
    \/ SetupStep(Mon)

(* ------------------------------ main (151-196) ------------------------ *)
\* line 180: while not exit_flag
MainWhile ==
    /\ pc[Main] = "m_while" /\ Runs(Main)
    /\ Goto(Main, IF exit_flag THEN "finally" ELSE "accept")
    /\ UNCHANGED <<peerVars, envVars, histVars, serVars, written, clients, exit_flag, sockFile,
                   shutVars, connVars, loc, stableIters>>

\* lines 182-184: accept() returns a connection; its handler thread starts
MainAccept ==
    /\ pc[Main] = "accept" /\ Runs(Main)
    /\ \E c \in Conns :
          /\ fd[c] = "pending"
          /\ \A d \in Conns : d < c => fd[d] # "pending"
          /\ fd' = [fd EXCEPT ![c] = "open"]
          /\ pc' = [pc EXCEPT ![Main] = "m_while", ![c] = "start"]
    /\ UNCHANGED <<peerVars, envVars, histVars, serVars, written, clients, exit_flag, sockFile,
                   shutVars, peerOpen, inbuf, outpos, replies,
                   closeCalls, loc, stableIters>>

\* lines 185-187: accept() times out after one second
MainAcceptTimeout ==
    /\ pc[Main] = "accept" /\ Runs(Main)
    /\ \A c \in Conns : fd[c] # "pending"
    /\ Goto(Main, "m_while")
    /\ UNCHANGED <<peerVars, envVars, histVars, serVars, written, clients, exit_flag, sockFile,
                   shutVars, connVars, loc, stableIters>>

NewFrame(fin) == [p |-> "c_flag", live |-> FALSE, snap |-> <<>>, idx |-> 0,
                  client |-> 0, fin |-> fin]

\* lines 194-195: finally: cleanup()
MainFinally ==
    /\ pc[Main] = "finally" /\ Runs(Main)
    /\ mstack' = <<NewFrame(TRUE)>>
    /\ Goto(Main, "srvclose")
    /\ UNCHANGED <<peerVars, envVars, histVars, serVars, written, clients, exit_flag, sockFile,
                   unlinks, cleanupRaised, cleanupsDone, overlap, mpending,
                   signals, connVars, loc, stableIters>>

\* line 196: server.close(); main returns
MainServerClose ==
    /\ pc[Main] = "srvclose" /\ Runs(Main)
    /\ Goto(Main, "done")
    /\ UNCHANGED <<peerVars, envVars, histVars, serVars, written, clients, exit_flag, sockFile,
                   shutVars, connVars, loc, stableIters>>

\* lines 155-156: SIGINT or SIGTERM arrives; the handler calls cleanup() on
\* the main thread, on top of whatever main (or another cleanup()) was doing
Signal ==
    /\ signals < MaxSignals
    /\ pc[Main] \notin {"done", "crashed"}
    /\ signals' = signals + 1
    /\ mstack' = Append(mstack, NewFrame(FALSE))
    /\ overlap' = (overlap \/ mstack # <<>>)
    /\ UNCHANGED <<peerVars, envVars, histVars, serVars, written, clients, exit_flag, sockFile,
                   unlinks, cleanupRaised, cleanupsDone, mpending, connVars,
                   pc, loc, stableIters>>

(* ------------------------------ cleanup (79-101) ---------------------- *)
Top == mstack[Len(mstack)]

Below == SubSeq(mstack, 1, Len(mstack) - 1)

At(p) == mstack # <<>> /\ Top.p = p

SetTop(f) == mstack' = [mstack EXCEPT ![Len(mstack)] = f]

\* The list a frame's for loop walks: the object the global clients named
\* when the loop began, which is the live list until some cleanup() rebinds
\* clients to a new [].
Walked(f) == IF f.live THEN clients ELSE f.snap

\* An exception leaving a signal handler is raised in the code it
\* interrupted: a cleanup() interrupted inside its try (line 87) swallows it
\* with its bare except, any other interrupted cleanup() is left by it too.
RECURSIVE Unwind(_)
Unwind(st) ==
    IF st = <<>> THEN <<>>
    ELSE IF st[Len(st)].p = "c_close"
         THEN [st EXCEPT ![Len(st)].p = "c_iter"]
         ELSE Unwind(SubSeq(st, 1, Len(st) - 1))

\* cleanup() returns (line 101).  Main's finally block re-raises the
\* exception that brought it there.
CleanupReturn ==
    /\ mstack' = Below
    /\ cleanupsDone' = cleanupsDone + 1
    /\ pc' = IF Top.fin /\ mpending THEN [pc EXCEPT ![Main] = "crashed"] ELSE pc
    /\ UNCHANGED <<cleanupRaised, mpending>>

\* cleanup() raises.  Out of every frame, the exception reaches main():
\* in accept() (the inner try, lines 181-190) `except Exception` catches
\* it and the loop goes on; elsewhere inside the try of lines 176-193 it
\* runs the finally block (cleanup() once more) and is re-raised after it;
\* anywhere else it ends main().
CleanupRaise ==
    /\ cleanupRaised' = TRUE
    /\ mstack' = Unwind(Below)
    /\ IF Unwind(Below) # <<>>
       THEN pc' = pc /\ mpending' = mpending
       ELSE IF ~mstack[1].fin /\ pc[Main] = "accept"
            THEN pc' = [pc EXCEPT ![Main] = "m_while"] /\ mpending' = mpending
       ELSE IF ~mstack[1].fin /\ pc[Main] \in {"m_while", "finally"}
            THEN pc' = [pc EXCEPT ![Main] = "finally"] /\ mpending' = TRUE
            ELSE pc' = [pc EXCEPT ![Main] = "crashed"] /\ mpending' = mpending
    /\ UNCHANGED cleanupsDone

\* line 82: exit_flag = True
CleanupFlag ==
    /\ At("c_flag")
    /\ exit_flag' = TRUE
    /\ SetTop([Top EXCEPT !.p = "c_for"])
    /\ UNCHANGED <<peerVars, envVars, histVars, serVars, written, clients, sockFile, unlinks,
                   cleanupRaised, cleanupsDone, overlap, mpending, signals,
                   connVars, pc, loc, stableIters>>

\* line 85: for client in clients (the loop takes the list object)
CleanupFor ==
    /\ At("c_for")
    /\ SetTop([Top EXCEPT !.p = "c_iter", !.live = TRUE, !.idx = 0])
    /\ UNCHANGED <<peerVars, envVars, histVars, serVars, written, clients, exit_flag, sockFile,
                   unlinks, cleanupRaised, cleanupsDone, overlap, mpending,
                   signals, connVars, pc, loc, stableIters>>

\* line 85: the loop takes the element at its index, or ends
CleanupIter ==
    /\ At("c_iter")
    /\ SetTop(IF Top.idx < Len(Walked(Top))
              THEN [Top EXCEPT !.p = "c_close", !.idx = @ + 1,
                               !.client = Walked(Top)[Top.idx + 1]]
              ELSE [Top EXCEPT !.p = "c_clear"])
    /\ UNCHANGED <<peerVars, envVars, histVars, serVars, written, clients, exit_flag, sockFile,
                   unlinks, cleanupRaised, cleanupsDone, overlap, mpending,
                   signals, connVars, pc, loc, stableIters>>

\* lines 86-89: client.close()
CleanupClose ==
    /\ At("c_close")
    /\ fd' = [fd EXCEPT ![Top.client] = "closed"]
    /\ closeCalls' = [closeCalls EXCEPT ![Top.client] = @ + 1]
    /\ SetTop([Top EXCEPT !.p = "c_iter"])
    /\ UNCHANGED <<peerVars, envVars, histVars, serVars, written, clients, exit_flag, sockFile,
                   unlinks, cleanupRaised, cleanupsDone, overlap, mpending,
                   signals, peerOpen, inbuf, outpos, replies, pc,
                   loc, stableIters>>

\* What line 90 is not: a cleanup() that leaves the registry as it was.
ClientsNotCleared == clients

\* line 90: clients = [] (a new list; loops under way keep the old one)
ClientsCleared == <<>>

CleanupClear ==
    /\ At("c_clear")
    /\ clients' = ClientsCleared
    /\ mstack' = [i \in 1..Len(mstack) |->
                    IF i = Len(mstack) THEN [mstack[i] EXCEPT !.p = "c_s1", !.live = FALSE]
                    ELSE IF mstack[i].live
                         THEN [mstack[i] EXCEPT !.live = FALSE, !.snap = clients]
                         ELSE mstack[i]]
    /\ UNCHANGED <<peerVars, envVars, histVars, serVars, written, exit_flag, sockFile, unlinks,
                   cleanupRaised, cleanupsDone, overlap, mpending, signals,
                   connVars, pc, loc, stableIters>>

\* line 93: if ser (first load)
CleanupSerTruthy ==
    /\ At("c_s1")
    /\ SetTop([Top EXCEPT !.p = IF ser = None THEN "c_exists" ELSE "c_s2"])
    /\ UNCHANGED <<peerVars, envVars, histVars, serVars, written, clients, exit_flag, sockFile,
                   unlinks, cleanupRaised, cleanupsDone, overlap, mpending,
                   signals, connVars, pc, loc, stableIters>>

\* line 93: and ser.is_open (second load)
CleanupSerIsOpen ==
    /\ At("c_s2")
    /\ IF ser = None
       THEN CleanupRaise
       ELSE /\ SetTop([Top EXCEPT !.p = IF hstate[ser] = "open" THEN "c_s3" ELSE "c_exists"])
            /\ UNCHANGED <<cleanupRaised, cleanupsDone, mpending, pc>>
    /\ UNCHANGED <<peerVars, envVars, histVars, serVars, written, clients, exit_flag, sockFile,
                   unlinks, overlap, signals, connVars, loc, stableIters>>

\* line 94: ser.close() (third load)
CleanupSerClose ==
    /\ At("c_s3")
    /\ IF ser = None
       THEN CleanupRaise /\ hstate' = hstate /\ inert' = inert
       ELSE /\ hstate' = [hstate EXCEPT ![ser] = "closed"]
            /\ inert' = TRUE
            /\ SetTop([Top EXCEPT !.p = "c_s4"])
            /\ UNCHANGED <<cleanupRaised, cleanupsDone, mpending, pc>>
    /\ UNCHANGED <<peerVars, envVars, downIters, ser, written, clients, exit_flag, sockFile,
                   unlinks, overlap, signals, connVars, loc, stableIters>>

\* line 95: ser = None
CleanupSerReset ==
    /\ At("c_s4")
    /\ ser' = None
    /\ SetTop([Top EXCEPT !.p = "c_exists"])
    /\ UNCHANGED <<peerVars, envVars, histVars, hstate, written, clients, exit_flag, sockFile,
                   unlinks, cleanupRaised, cleanupsDone, overlap, mpending,
                   signals, connVars, pc, loc, stableIters>>

\* line 98: if os.path.exists(UNIX_SOCKET_PATH); without the file cleanup()
\* returns
UnlinkGuard == sockFile

CleanupExists ==
    /\ At("c_exists")
    /\ IF UnlinkGuard
       THEN /\ SetTop([Top EXCEPT !.p = "c_unlink"])
            /\ UNCHANGED <<cleanupRaised, cleanupsDone, mpending, pc>>
       ELSE CleanupReturn
    /\ UNCHANGED <<peerVars, envVars, histVars, serVars, written, clients, exit_flag, sockFile,
                   unlinks, overlap, signals, connVars, loc, stableIters>>

\* line 99: os.unlink(UNIX_SOCKET_PATH): FileNotFoundError when the file is
\* gone by now; otherwise the file is removed and cleanup() returns
CleanupUnlink ==
    /\ At("c_unlink")
    /\ IF sockFile
       THEN /\ sockFile' = FALSE
            /\ unlinks' = unlinks + 1
            /\ CleanupReturn
       ELSE /\ UNCHANGED <<sockFile, unlinks>>
            /\ CleanupRaise
    /\ UNCHANGED <<peerVars, envVars, histVars, serVars, written, clients, exit_flag, overlap,
                   signals, connVars, loc, stableIters>>

CleanupStep ==
    \/ CleanupFlag
    \/ CleanupFor
    \/ CleanupIter
    \/ CleanupClose
    \/ CleanupClear
    \/ CleanupSerTruthy
    \/ CleanupSerIsOpen
    \/ CleanupSerClose
    \/ CleanupSerReset
    \/ CleanupExists
    \/ CleanupUnlink

(* ------------- bluetooth_beacons_scanner_v2: read_responses ----------- *)
\* str.splitlines(): the lines of s, broken at "\r\n", "\r" or "\n", the
\* breaks left out and no empty line added after a final break.
RECURSIVE SplitFrom(_, _, _)
SplitFrom(s, cur, acc) ==
    IF s = <<>> THEN (IF cur = <<>> THEN acc ELSE Append(acc, cur))
    ELSE IF Head(s) = CR
         THEN SplitFrom(IF Len(s) >= 2 /\ s[2] = LF THEN Tail(Tail(s)) ELSE Tail(s),
                        <<>>, Append(acc, cur))
    ELSE IF Head(s) = LF
         THEN SplitFrom(Tail(s), <<>>, Append(acc, cur))
    ELSE SplitFrom(Tail(s), Append(cur, Head(s)), acc)

SplitLines(s) == SplitFrom(s, <<>>, <<>>)

\* How many hex digits stand in line from position k on.
RECURSIVE DigitsFrom(_, _)
DigitsFrom(line, k) ==
    IF k <= Len(line) /\ line[k] = HEXDIGIT THEN 1 + DigitsFrom(line, k + 1) ELSE 0

\* lines 173-180: "+INQ:" in line and re.search(...) finds mac, class and at
\* least one RSSI digit: <<the beacon, how many RSSI digits were taken>>, or
\* <<>> without a match.
Match(line) ==
    LET hits == {k \in 1..Len(line) : line[k] \in Beacons /\ DigitsFrom(line, k + 1) >= 1}
    IN  IF hits = {} THEN <<>>
        ELSE LET k == CHOOSE x \in hits : \A y \in hits : x <= y
             IN  <<line[k], DigitsFrom(line, k + 1)>>

\* lines 172-189: the send_device_found calls one pass over lines makes
\* (is_calibrating is never set, so every match is sent).
RECURSIVE Detections(_)
Detections(lines) ==
    IF lines = <<>> THEN <<>>
    ELSE (IF Match(Head(lines)) = <<>> THEN <<>> ELSE <<Match(Head(lines))>>)
         \o Detections(Tail(lines))

HasBreak(s) == \E k \in 1..Len(s) : s[k] \in {CR, LF}

EndsWithBreak(s) == s # <<>> /\ s[Len(s)] \in {CR, LF}

\* lines 191-196: what stays in response_buffer after a pass.
KeepLast(buf) ==
    IF EndsWithBreak(buf) THEN <<>>
    ELSE IF SplitLines(buf) = <<>> THEN <<>>
    ELSE SplitLines(buf)[Len(SplitLines(buf))]

\* lines 162-196, one turn of the loop with count > 0: bb_serial_read hands
\* out the next n characters, they are added to response_buffer, and once
\* the buffer holds a line break every line of it is looked at.
ReadChunk ==
    /\ rxPos < Len(rxStream)
    /\ \E n \in 1..(Len(rxStream) - rxPos) :
          LET buf == response_buffer \o SubSeq(rxStream, rxPos + 1, rxPos + n) IN
          /\ rxPos' = rxPos + n
          /\ found' = IF HasBreak(buf) THEN found \o Detections(SplitLines(buf))
                       ELSE found
          /\ response_buffer' = IF HasBreak(buf) THEN KeepLast(buf) ELSE buf
    /\ UNCHANGED <<rxStream, prodVars, envVars, histVars, serVars, written, clients,
                   exit_flag, sockFile, shutVars, connVars, pc, loc, stableIters>>

\* What the HC-05 sends: the beacons' lines, each ended "\r\n" or "\n",
\* then "OK\r\n".
BeaconLine(i, term) == <<i>> \o [k \in 1..RssiDigits |-> HEXDIGIT] \o term

RECURSIVE RxLines(_, _)
RxLines(n, t) == IF n = 0 THEN <<>> ELSE RxLines(n - 1, t) \o BeaconLine(n, t[n])

RxStreams ==
    {RxLines(MaxBeacons, t) \o <<PLAIN, CR, LF>> :
        t \in [Beacons -> {<<CR, LF>>, <<LF>>}]}

(* --------------------------- specifications --------------------------- *)
ProducerStep == \E c \in Conns : ProducerConnect(c) \/ ProducerSendLine(c) \/ ProducerClose(c)

StreamStep == \E c \in Conns : ProducerConnect(c) \/ ProducerSendBytes(c) \/ ProducerClose(c)

MainStep ==
    \/ SetupStep(Main)
    \/ MainWhile
    \/ MainAccept
    \/ MainAcceptTimeout

SessionStep == \E c \in Conns : HandlerStep(c) \/ SendStep(c) \/ SetupStep(c)

ShutdownStep ==
    \/ Signal
    \/ CleanupStep
    \/ MainFinally
    \/ MainServerClose
    \/ \E c \in Conns : HandlerRecvRaise(c)

\* The broker in service: a producer, its session, the monitor, the device.
NextRun == DeviceFlap \/ ProducerStep \/ MainStep \/ SessionStep \/ MonitorStep

SpecRun == InitWith(1, MaxFlaps, 0, MaxHandles, MaxMsgs) /\ [][NextRun]_vars

\* Two producers at once (the monitor asleep, the device not changing).
NextPair == ProducerStep \/ MainStep \/ SessionStep

SpecPair == InitWith(MaxConns, 0, 0, 1, MaxMsgs) /\ [][NextPair]_vars

\* A producer whose bytes arrive in pieces of any size.
NextStream == DeviceFlap \/ StreamStep \/ MainStep \/ SessionStep \/ MonitorStep

SpecStream == InitWith(1, 1, 0, 2, 1) /\ [][NextStream]_vars

\* A producer that sends empty lines.
EmptyStep == \E c \in Conns : ProducerConnect(c) \/ ProducerSendEmpty(c) \/ ProducerClose(c)

NextEmpty == DeviceFlap \/ EmptyStep \/ MainStep \/ SessionStep \/ MonitorStep

SpecEmpty == InitWith(1, 1, 0, 2, 1) /\ [][NextEmpty]_vars

\* A producer some of whose lines are not text.
BadStep ==
    \E c \in Conns :
        \/ ProducerConnect(c)
        \/ ProducerSendLine(c)
        \/ ProducerSendBad(c)
        \/ ProducerClose(c)

NextBad == DeviceFlap \/ BadStep \/ MainStep \/ SessionStep \/ MonitorStep

SpecBad == InitWith(1, 1, 0, 2, MaxMsgs) /\ [][NextBad]_vars

\* An outage of DownIntervals monitor iterations, then a producer's line.
RecoverStep == \E c \in Conns : ProducerConnect(c) \/ ProducerSendAfter(c) \/ ProducerClose(c)

NextRecover == DeviceFlap \/ RecoverStep \/ MainStep \/ SessionStep \/ MonitorStep

InitRecover ==
    InitBase(1, MaxFlaps, 0, MaxHandles, 1) /\ downIters = 0 /\ ScannerIdle /\ SenderIdle

SpecRecover == InitRecover /\ [][NextRecover]_vars

\* The scanner's reader thread alone, on any of the streams and any way of
\* cutting a stream into reads; the broker is not running.
InitScan ==
    /\ InitBase(0, 0, 0, 0, 0) /\ downIters = -1 /\ SenderIdle
    /\ rxStream \in RxStreams
    /\ rxPos = 0
    /\ response_buffer = <<>>
    /\ found = <<>>

NextScan == ReadChunk

SpecScan == InitScan /\ [][NextScan]_vars

\* The broker with a producer that reports its events one at a time, each
\* after the answer to the one before, and reconnects when its socket fails;
\* the device comes or goes and a signal shuts the broker down.  The
\* monitor sleeps through the run, so no thread opens the port while
\* another's open is failing and line 37 finds nothing to close.
SyncBrokerStep ==
    \/ MainWhile \/ MainAccept \/ MainAcceptTimeout
    \/ \E t \in Conns \cup {Main} :
          \/ SetupAvail(t) \/ SetupCheckNone(t) \/ SetupCheckOpen(t)
          \/ SetupOpenOk(t) \/ SetupOpenFail(t)
          \/ SetupExcTruthy(t) \/ SetupExcIsOpen(t) \/ SetupExcReset(t)
    \/ \E c \in Conns : HandlerStep(c) \/ SendStep(c)

NextSync == DeviceFlap \/ SyncStep \/ SyncBrokerStep \/ ShutdownStep

SpecSync == InitWith(MaxConns, 1, 1, MaxHandles, MaxMsgs) /\ [][NextSync]_vars

\* The whole broker, a signal and the shutdown it starts included.
Next == NextRun \/ ShutdownStep

Spec == InitWith(1, 1, 1, 1, 1) /\ [][Next]_vars

\* The same with a device that does not change, and a handle left to
\* create once the first one is closed.
NextStop == ProducerStep \/ MainStep \/ SessionStep \/ MonitorStep \/ ShutdownStep

SpecStop == InitWith(1, 0, 1, MaxHandles, 1) /\ [][NextStop]_vars

\* The same runs with every thread kept scheduled: the main thread (its
\* loop, its finally block and the cleanup() frames on it), the monitor
\* thread and each session thread take the steps they can take.  Signals
\* and producers are the environment's and owe nothing.
MainThreadStep == MainStep \/ CleanupStep \/ MainFinally \/ MainServerClose

SessionThreadStep(c) ==
    HandlerStep(c) \/ SendStep(c) \/ SetupStep(c) \/ HandlerRecvRaise(c)

FairThreads ==
    /\ WF_vars(MainThreadStep)
    /\ WF_vars(MonitorStep)
    /\ \A c \in Conns : WF_vars(SessionThreadStep(c))

SpecHalt == InitWith(1, 0, 1, MaxHandles, 1) /\ [][NextStop]_vars /\ FairThreads

\* Shutdown seen from the main thread alone: g signals find main() in its
\* accept loop with any registry and any transport; each handler runs
\* cleanup(), the loop sees exit_flag, and main's finally block calls
\* cleanup() again.  The sessions stay blocked in recv on idle producers and
\* the monitor sleeps, so whatever goes wrong is the main thread's own doing.
InitShut(g) ==
    /\ devAvail \in BOOLEAN
    /\ flaps = MaxFlaps
    /\ quota = 0
    /\ hstate \in {[x \in Handles |-> IF x = 1 THEN st ELSE "free"] :
                       st \in {"free", "open", "closed"}}
    /\ ser = IF hstate[1] = "open" THEN 1 ELSE None
    /\ written = [c \in Conns |-> <<>>]
    /\ \E S \in SUBSET Conns : \E order \in [1..Cardinality(S) -> S] :
          /\ \A i, j \in 1..Cardinality(S) : order[i] = order[j] => i = j
          /\ clients = order
          /\ fd = [c \in Conns |-> IF c \in S THEN "open" ELSE "unused"]
          /\ peerOpen = [c \in Conns |-> c \in S]
          /\ pc = [t \in Threads |-> IF t = Mon THEN "m_sleep"
                                     ELSE IF t = Main THEN "m_while"
                                     ELSE IF t \in S THEN "blocked" ELSE "idle"]
    /\ exit_flag = FALSE
    /\ sockFile = TRUE
    /\ unlinks = 0
    /\ cleanupRaised = FALSE
    /\ cleanupsDone = 0
    /\ overlap = FALSE
    /\ closeCalls = [c \in Conns |-> 0]
    /\ inbuf = [c \in Conns |-> <<>>]
    /\ outpos = [c \in Conns |-> 0]
    /\ replies = [c \in Conns |-> <<>>]
    /\ loc = [c \in Conns |-> NoLoc]
    /\ mstack = <<>>
    /\ mpending = FALSE
    /\ signals = MaxSignals - g
    /\ stableIters = 0
    /\ inert = FALSE
    /\ downIters = -1
    /\ ScannerIdle /\ SenderIdle

NextShut ==
    \/ Signal
    \/ CleanupStep
    \/ MainWhile
    \/ MainAcceptTimeout
    \/ MainFinally
    \/ MainServerClose

\* Two cleanup() calls in sequence: one signal, then the finally block.
SpecSeq == InitShut(1) /\ [][NextShut]_vars

\* Overlapping cleanup() calls: a signal may arrive while cleanup() runs.
SpecShut == InitShut(MaxSignals) /\ [][NextShut]_vars

\* Shutdown fan-out while sessions leave: one signal, the finally block, and
\* producers that hang up so that their sessions run their own finally
\* blocks (lines 111-112, 130-136) while cleanup() walks the registry.
FanStep ==
    \E c \in Conns :
        \/ ProducerClose(c)
        \/ HandlerRecvEof(c)
        \/ HandlerClose(c)
        \/ HandlerMember(c)
        \/ HandlerRemove(c)

NextFan == NextShut \/ FanStep

SpecFan == InitShut(1) /\ [][NextFan]_vars

(* ====================================================================== *)
(* The claims                                                              *)
(* ====================================================================== *)

\* The payload bytes session c got onto the serial port, in write order
\* (line 68), the newlines left out.
RECURSIVE Flatten(_)
Flatten(ws) == IF ws = <<>> THEN <<>> ELSE Head(ws) \o Flatten(Tail(ws))

Payload(c) == SelectSeq(Flatten(written[c]), LAMBDA b : b # NL)

\* The bytes of its script that session c has taken off its socket so far.
Consumed(c) == SubSeq(Script(c), 1, outpos[c] - Len(inbuf[c]))

(* -------------------------------- C1 ---------------------------------- *)
\* C1: a message forwarded while the handle was open (line 51 found ser
\* open) and handed to ser.write is answered ACK exactly when the write
\* completed, and NACK when the write failed.
C1_AckIffWritten ==
    \A c \in Conns :
        (loc[c].delivered /\ ~loc[c].disc /\ loc[c].wrote # "none")
            => /\ loc[c].reply = "ACK" <=> loc[c].wrote = "ok"
               /\ loc[c].wrote = "fail" => loc[c].reply = "NACK"

C3_OneReplyPerLine ==
    \A c \in Conns :
        (pc[c] \in {"recv", "blocked"} /\ Sendable(c))
            => Len(replies[c]) = CountNL(Consumed(c))

(* -------------------------------- C4 ---------------------------------- *)
\* C4: with two producers connected at once, the messages of one producer
\* reach the serial port in the order that producer sent them.
C4_PerProducerOrder ==
    \A c \in Conns :
        \A i, j \in 1..Len(Payload(c)) : i < j => Payload(c)[i] < Payload(c)[j]

C4_Witness ==
    \A c \in Conns :
        /\ Len(written[c]) = MaxMsgs
        /\ Payload(c) = SelectSeq(Lines(MaxMsgs), LAMBDA b : b # NL)

(* -------------------------------- C5 ---------------------------------- *)
\* C5: after a transport loss (a handle was dropped), the monitor does not
\* pass ReconnectBound iterations in a row that find the device listed and
\* no handle held without the transport being reopened.
C5_MonitorReconnects ==
    (\E h \in Handles : hstate[h] = "closed") => stableIters < ReconnectBound

(* -------------------------------- C6 ---------------------------------- *)
\* C6: at most one serial handle is open at any instant, and every open
\* handle is the one ser is bound to (none overwritten or abandoned).
C6_SingleHandle ==
    /\ Cardinality(OpenHandles) <= 1
    /\ \A h \in OpenHandles : ser = h

(* -------------------------------- C7 ---------------------------------- *)
\* C7: after a NACK, while the producer keeps its end open, the connection
\* is still open, the session is still in clients, and the handler is in
\* its loop reading or processing the next message.
C7_NackKeepsSession ==
    \A c \in Conns :
        (replies[c] # <<>> /\ replies[c][Len(replies[c])] = "NACK" /\ peerOpen[c])
            => /\ fd[c] = "open"
               /\ c \in Range(clients)
               /\ pc[c] \notin {"f_close", "f_in", "f_remove", "done", "crashed"}

C7_Witness ==
    \E c \in Conns :
        /\ Len(replies[c]) >= 2 /\ replies[c][1] = "NACK"
        /\ fd[c] = "open" /\ c \in Range(clients)

(* -------------------------------- C8 ---------------------------------- *)
\* C8: close() is called at most once on an accepted connection, and a
\* connection whose handler has exited is closed.
C8_OneClose ==
    \A c \in Conns :
        /\ closeCalls[c] <= 1
        /\ pc[c] \in {"done", "crashed"} => fd[c] = "closed"

(* -------------------------------- C9 ---------------------------------- *)
\* C9: when a cleanup() has started while another was still running, no
\* cleanup() raises, and the socket file is unlinked at most once.
C9_OverlapCompletes ==
    /\ overlap => ~cleanupRaised
    /\ unlinks <= 1

(* -------------------------------- C10 --------------------------------- *)
\* C10: once one cleanup() has returned, the stop flag is set, the registry
\* is empty, the transport is closed and the socket file is gone;
\* a cleanup() called after that closes nothing, unlinks nothing, changes
\* none of these and does not raise.
C10_Idempotent ==
    /\ [](cleanupsDone >= 1 =>
            /\ exit_flag /\ clients = <<>> /\ ~Connected
            /\ OpenHandles = {} /\ ~sockFile)
    /\ [][cleanupsDone >= 1 =>
            /\ UNCHANGED <<closeCalls, fd, hstate, ser, clients, exit_flag,
                           sockFile, unlinks>>
            /\ ~cleanupRaised']_vars

C10_Witness ==
    /\ cleanupsDone = 2 /\ ~cleanupRaised /\ unlinks = 1
    /\ \A c \in Conns : closeCalls[c] = 1
    /\ \E h \in Handles : hstate[h] = "closed"

(* -------------------------------- C11 --------------------------------- *)
\* C11: once cleanup() has closed the transport handle, no step opens a
\* serial handle any more.
C11_InertAfterShutdown ==
    [][inert => \A h \in Handles : hstate'[h] = "open" => hstate[h] = "open"]_vars

(* -------------------------------- C12 --------------------------------- *)
\* C12: a session about to call ser.write holds the content of exactly one
\* line of its producer, and has read that line's terminator.
C12_WholeLinesOnly ==
    \A c \in Conns :
        pc[c] = "sd_write"
            => \E i \in 1..quota : /\ loc[c].msg = <<i>>
                                   /\ Len(Consumed(c)) >= 2 * i

(* -------------------------------- C13 --------------------------------- *)
\* C13: for a producer that sends only empty lines, nothing is written to
\* the transport and every reply is an ERROR line.
C13_EmptyLineRejected ==
    \A c \in Conns :
        /\ written[c] = <<>>
        /\ \A i \in 1..Len(replies[c]) : replies[c][i] = "ERROR"

(* -------------------------------- C14 --------------------------------- *)
\* C14: a message sent once the device is back after an outage of
\* DownIntervals monitor iterations is answered ACK, unless the open or
\* the write made for it failed.
C14_AckAfterRecovery ==
    \A c \in Conns :
        (loc[c].delivered /\ loc[c].wrote # "fail" /\ loc[c].avail # "failed")
            => loc[c].reply = "ACK"

\* C15: the broker neither queues nor replays.  Bytes reach the transport
\* for a producer only in the one write of send_data for the message its
\* session is processing: that message has had no write attempt and no
\* reply yet, and what is written is that message.  A message that was
\* answered (NACK included) is therefore never written afterwards.
C15_NoReplay ==
    [][\A c \in Conns :
          written'[c] # written[c] =>
              /\ pc[c] = "sd_write"
              /\ loc[c].wrote = "none"
              /\ loc[c].reply = "none"
              /\ written'[c] = Append(written[c], WireBytes(loc[c].msg))]_vars

\* A first message was refused, the port came back, and only the second
\* message reached the transport.
C15_Witness ==
    \E c \in Conns :
        /\ replies[c] = <<"NACK", "ACK">>
        /\ Len(written[c]) = 1
        /\ Connected

\* C16: a producer that closes its connection is taken out of the registry
\* and is sent nothing for it, and nobody else is touched.  A session that
\* has ended is out of clients with its socket closed; every step of a
\* session into or through its finally block (lines 111-112, 128-136) sends
\* no reply, removes at most that session from clients, keeping the others
\* in order, and leaves every other connection as it was.
C16_DisconnectRemovesOnlySelf ==
    /\ [](\A c \in Conns :
             pc[c] = "done" => c \notin Range(clients) /\ fd[c] = "closed")
    /\ [][\A c \in Conns :
             (pc'[c] # pc[c] /\ pc'[c] \in {"f_close", "f_in", "f_remove", "done"}) =>
                 /\ replies' = replies
                 /\ clients' = IF pc[c] = "f_remove"
                               THEN SelectSeq(clients, LAMBDA x : x # c)
                               ELSE clients
                 /\ \A d \in Conns \ {c} :
                        /\ fd'[d] = fd[d]
                        /\ closeCalls'[d] = closeCalls[d]
                        /\ pc'[d] = pc[d]]_vars

\* One producer was served and hung up, its session has ended, and the
\* other session is still registered, open and waiting in recv.
C16_Witness ==
    \E c \in Conns : \E d \in Conns \ {c} :
        /\ pc[c] = "done" /\ ~peerOpen[c]
        /\ replies[c] = <<"ACK">>
        /\ clients = <<d>>
        /\ fd[d] = "open" /\ pc[d] = "blocked"

C18_WriteExcludesStateChange ==
    \A c \in Conns : pc[c] = "sd_write" => Connected

(* -------------------------------- C19 --------------------------------- *)
\* C19: shutdown reaches every registered session.  Once a cleanup() call
\* has returned and none is under way, no connection that was registered
\* in clients is still open, whatever the sessions did meanwhile.
C19_EveryRegisteredClosed ==
    (cleanupsDone >= 1 /\ mstack = <<>>) => \A c \in Conns : fd[c] # "open"

(* -------------------------------- C20 --------------------------------- *)
\* C20: nothing is forwarded once the stop flag is set.  A message whose
\* send_data began (line 51) with exit_flag set is not written to the
\* transport, and its session does not open the port for it (a session is
\* at line 68 after a Disconnected check only when its own open succeeded).
C20_NoForwardAfterStop ==
    \A c \in Conns :
        loc[c].late => /\ loc[c].wrote # "ok"
                       /\ ~(loc[c].disc /\ pc[c] = "sd_write")

(* -------------------------------- C21 --------------------------------- *)
Exited(t) == pc[t] \in {"done", "crashed"}

\* C21: once cleanup() has set exit_flag, every thread ends: main leaves
\* its loop and returns, the monitor leaves its loop, every session that
\* was accepted closes its connection and returns, and the socket file is
\* gone.
C21_EveryUnitExits ==
    exit_flag ~> /\ Exited(Main)
                 /\ Exited(Mon)
                 /\ \A c \in Conns : fd[c] \in {"open", "closed"} => Exited(c)
                 /\ ~sockFile

(* -------------------------------- C22 --------------------------------- *)
\* C22: a failed Write leaves the transport Disconnected.  At the step by
\* which a session's send_data returns False (the session goes on to send
\* its NACK), ser is None or names a closed handle.
C22_FailureLeavesDisconnected ==
    [][\A c \in Conns :
          (pc[c] # "reply" /\ pc'[c] = "reply" /\ ~loc'[c].success)
              => ~(ser' # None /\ hstate'[ser'] = "open")]_vars

(* -------------------------------- C23 --------------------------------- *)
\* C23: the monitor's liveness check.  In every step of the monitor thread:
\* a check that finds the device not listed, or the handle not open, enters
\* the drop branch (lines 144-148); the drop branch closes the handle it
\* finds open and can only go on to line 147, which leaves ser None, so the
\* transport is Disconnected before the iteration ends; a check that finds
\* the device listed and the handle open ends the iteration; and no step of
\* the check itself changes ser or a handle.  An iteration cut short by an
\* exception found ser None.
C23_MonitorLivenessCheck ==
    [][LET p == pc[Mon]
           q == pc'[Mon]
       IN  p # q =>
             /\ (p = "m_c1" /\ ~devAvail) => q = "m_b1"
             /\ (p = "m_c3" /\ ser # None /\ hstate[ser] # "open") => q = "m_b1"
             /\ (p = "m_c3" /\ ser # None /\ hstate[ser] = "open") => q = "m_sleep"
             /\ p \in {"m_loop", "m_c1", "m_c2", "m_c3", "m_sleep"}
                    => UNCHANGED <<ser, hstate>>
             /\ p \in {"m_b1", "m_b2", "m_b3"}
                    => q \in {"m_b2", "m_b3", "m_b4", "crashed"}
             /\ (p = "m_b3" /\ ser # None) => hstate'[ser] = "closed"
             /\ p = "m_b4" => q = "su_avail" /\ ser' = None /\ ~Connected'
             /\ (q = "crashed" /\ p \in {"m_c3", "m_b2", "m_b3"}) => ser = None]_vars

\* With no session at work, the device went away while the transport was
\* Connected and the monitor has closed the handle and reset ser.
C23_Witness ==
    /\ pc[Mon] = "su_avail"
    /\ ~devAvail
    /\ ser = None
    /\ hstate[1] = "closed"
    /\ \A c \in Conns : pc[c] = "idle"

CompleteLines(s) ==
    IF EndsWithBreak(s) THEN SplitLines(s)
    ELSE IF SplitLines(s) = <<>> THEN <<>>
    ELSE SubSeq(SplitLines(s), 1, Len(SplitLines(s)) - 1)

\* C25: one beacon event per detection.  However the stream is cut into
\* reads, the send_device_found calls made so far are exactly one for each
\* "+INQ:" line whose line break has been read, in the order of the lines
\* and with the whole RSSI field.
C25_OneEventPerLine ==
    found = Detections(CompleteLines(SubSeq(rxStream, 1, rxPos)))

(* -------------------------------- C26 --------------------------------- *)
Wrote(e) ==
    \E c \in Conns : \E i \in 1..Len(written[c]) : written[c][i] = <<e, NL>>

\* C26: end to end, send_to_bluetooth returns True for an event only if
\* the broker wrote that event to the transport; and when the producer is
\* about to send on its socket no reply to an earlier event is waiting
\* there, so none can be taken for the answer to a later one.
C26_TrueOnlyIfWritten ==
    /\ \A e \in 1..Len(presults) : presults[e] => Wrote(e)
    /\ (psock # None /\ ~pwait) => rdpos[psock] = Len(replies[psock])

\* On one connection the first event was refused and the second one was
\* written and acknowledged.
C26_Witness ==
    /\ presults = <<FALSE, TRUE>>
    /\ psock # None
    /\ replies[psock] = <<"NACK", "ACK">>

============================================================================
